---------------------------- MODULE Spec2Model ----------------------------
(***************************************************************************)
(* Model of js-pkg-go: the sum library function and the test, build and    *)
(* publish command line scripts that surround it.                          *)
(*                                                                         *)
(* One run of the model is one process: either a library client that calls *)
(* sum, or one of the scripts started with an argument list.               *)
(*                                                                         *)
(* Text is modelled as a sequence of pieces.  A command line token such as *)
(* "--tag=beta" is <<"--", "tag", "=", "beta">>: a leading "--" is a piece *)
(* of its own, every "=" is a piece of its own, a blank is the piece " ".  *)
(* The empty string is <<>>.                                               *)
(***************************************************************************)
EXTENDS Integers, Sequences, FiniteSets, TLC

(***************************************************************************)
(* Bounds of the model.                                                    *)
(***************************************************************************)
MaxLen == 3        \* longest argument list handed to sum
MaxVal == 2        \* sum arguments are drawn from -MaxVal..MaxVal
MaxFlags == 2      \* most tokens that follow the command word
MaxTestFlags == 3  \* the same for the test scripts: a filename and two flags

VARIABLES
  script,     \* the program this process runs
  argv,       \* process.argv.slice(2): the command word and what follows it
  pc,         \* "start", "running" or "exited"
  todo,       \* the calls the running operation still has to make, in order
  console,    \* what was written with console.log / console.error
  execd,      \* the external processes invoked so far: by which call, with
              \* which command line, and whether they exited with status 0
  error,      \* the error thrown and not caught (type "none" when none)
  exitCode,   \* the exit status of the process, -1 while it runs
  fs,         \* the paths that exist in the working directory
  pkg,        \* the content of package.json
  built,      \* the configurations handed to the bundler, in order
  trace,      \* the calls made so far, in order, with their outcome
  xs,         \* library client: the argument list of the first call
  rx,         \* library client: what sum(...xs) returned
  ys,         \* library client: the argument list of the second call
  ry,         \* library client: what sum(...ys) returned
  rel         \* library client: "idle", "summed", "perm" or "append"

cliVars == <<argv, pc, todo, console, execd, error, exitCode, fs, pkg, built, trace>>
libVars == <<xs, rx, ys, ry, rel>>
vars == <<script, argv, pc, todo, console, execd, error, exitCode, fs, pkg,
          built, trace, xs, rx, ys, ry, rel>>

(***************************************************************************)
(* Sequences of bounded length.                                            *)
(***************************************************************************)
SeqsUpTo(S, n) == UNION {[1..k -> S] : k \in 0..n}

Range(s) == {s[i] : i \in DOMAIN s}

(***************************************************************************)
(* The summation core.                                                     *)
(***************************************************************************)
Values == (0 - MaxVal)..MaxVal

\* the reducer callback (acc, val) => acc + val
add_last(acc, val) == val

add(acc, val) == acc + val

\* Array.prototype.reduce with an initial value: visits the elements from
\* index 0 upwards and threads the accumulator through the callback.
RECURSIVE reduce_skip_last(_, _, _)
reduce_skip_last(args, acc, i) ==
  IF i >= Len(args) THEN acc ELSE reduce_skip_last(args, add(acc, args[i]), i + 1)

RECURSIVE reduce(_, _, _)
reduce(args, acc, i) ==
  IF i > Len(args) THEN acc ELSE reduce(args, add(acc, args[i]), i + 1)

\* index.ts: sum(...args) = args.reduce((acc, val) => acc + val, 0)
sum_from_one(args) == reduce(args, 1, 1)

sum(args) == reduce(args, 0, 1)

\* src/sum/sum.ts: the same function over SumArgs
sum_module(args) == reduce(args, 0, 1)

\* the two modules that export sum
SumModules == {"index.ts", "src/sum/sum.ts"}

\* the call sum(...args) resolved against the module the client imports
CallSum(module, args) ==
  IF module = "index.ts" THEN sum(args) ELSE sum_module(args)


(***************************************************************************)
(* Text and optional values.                                               *)
(***************************************************************************)
Word(w) == <<w>>                  \* the text w, one piece
Flag(name) == <<"--", name>>      \* the text "--" + name
EmptyString == <<>>

\* an optional value: None is undefined, Some(v) a defined value
None == <<>>
Some(v) == <<v>>

\* JavaScript truthiness of an optional string: undefined and "" are falsy
Truthy(opt) == opt # None /\ opt[1] # EmptyString

\* String.prototype.startsWith, for a prefix given as pieces
startsWith(text, prefix) ==
  /\ Len(text) >= Len(prefix)
  /\ SubSeq(text, 1, Len(prefix)) = prefix

\* Array.prototype.includes
includes(list, item) == \E i \in DOMAIN list : list[i] = item

\* Array.prototype.join(" ")
RECURSIVE join(_)
join(list) ==
  IF list = <<>> THEN EmptyString
  ELSE IF Len(list) = 1 THEN list[1]
  ELSE list[1] \o <<" ">> \o join(Tail(list))

\* the template `bun ${args.join(" ")}`
BunCommand(args) == <<"bun", " ">> \o join(args)

\* a console line
Log(text) == [stream |-> "log", text |-> text]
LogError(text) == [stream |-> "error", text |-> text]

(***************************************************************************)
(* Errors.                                                                 *)
(***************************************************************************)
NoError == [type |-> "none", message |-> EmptyString, command |-> None]

\* new Error(message)
Error(message) == [type |-> "Error", message |-> message, command |-> None]

\* the error without the command field set
TestExecutionError_without_command(message, cmd) ==
  [type |-> "TestExecutionError", message |-> message, command |-> None]

\* scripts/test/types.ts: class TestExecutionError extends Error, with the
\* command as a public field
TestExecutionError(message, command) ==
  [type |-> "TestExecutionError", message |-> message, command |-> Some(command)]

\* what execSync throws when the child exits with a non-zero status: a plain
\* Error of the runtime; the scripts that re-throw it add nothing to it
ChildProcessError(command) == Error(<<"Command failed: ">> \o command)

(***************************************************************************)
(* The scripts and the argument lists they are started with.               *)
(***************************************************************************)
TestScripts == {"scripts/test/index.ts", "test.ts"}
BuildScripts == {"scripts/build/index.ts", "build.ts"}
Scripts == TestScripts \cup BuildScripts \cup {"publish.ts"}

\* the processes of the model: the scripts, and a client of the library for
\* each module it can import sum from
Programs == Scripts \cup SumModules

\* command words tried on every script beside its own: an unknown word and
\* the empty string
OtherWords == {Word("bogus"), EmptyString}

TestFile == Word("sum.test.ts")
OtherTestFile == Word("index.test.ts")

\* the case labels of each script's switch (command)
Recognized(s) ==
  IF s = "scripts/test/index.ts" THEN {Word("coverage"), Word("file"), Word("help")}
  ELSE IF s = "test.ts" THEN {Word("coverage"), Word("file")}
  ELSE IF s = "scripts/build/index.ts"
    THEN {Word("local"), Word("dev"), Word("prod"), Word("help")}
  ELSE IF s = "build.ts"
    THEN {Word("bundle"), Word("types"), Word("clean"), Word("watch"),
          Word("dev"), Word("prod"), Word("all")}
  ELSE IF s = "publish.ts"
    THEN {Word("patch"), Word("minor"), Word("major"), Word("info")}
  ELSE {}

Commands(s) == IF s \in Scripts THEN Recognized(s) \cup OtherWords ELSE {}

FlagTokens(s) ==
  IF s \in TestScripts
    THEN {Flag("coverage"), Flag("cov"), Flag("verbose"), Flag("watch"),
          TestFile, OtherTestFile, EmptyString}
  ELSE IF s = "scripts/build/index.ts"
    THEN {Flag("minify"), Flag("sourcemap"), Flag("pack"), Flag("types"),
          <<"--", "target", "=", "node">>, <<"--", "format", "=">>}
  ELSE IF s = "build.ts"
    THEN {Flag("no-clean"), Flag("minify"), Flag("pack"),
          <<"--", "target", "=", "node">>}
  ELSE IF s = "publish.ts"
    THEN {Flag("dry-run"), Flag("dry"), Flag("public"), Flag("restricted"),
          <<"--", "tag", "=", "beta">>, <<"--", "registry", "=", "r">>,
          <<"--", "registry", "=", "https://r/?a", "=", "b">>}
  ELSE {}

ArgLists(s) ==
  {<<>>} \cup {<<c>> \o f : c \in Commands(s),
                            f \in SeqsUpTo(FlagTokens(s),
                                           IF s \in TestScripts THEN MaxTestFlags
                                                                ELSE MaxFlags)}

\* const command = process.argv[2]
command == IF Len(argv) >= 1 THEN Some(argv[1]) ELSE None

\* const flags = process.argv.slice(3)
flags == IF Len(argv) >= 1 THEN Tail(argv) ELSE <<>>

(***************************************************************************)
(* Test scripts: argument parsing.                                         *)
(***************************************************************************)
\* flags.find((flag) => flag): the first token, flag or not
findFirst(list) == IF list = <<>> THEN None ELSE Some(list[1])

\* flags.find((flag) => !flag.startsWith("--"))
RECURSIVE findPositional(_)
findPositional(list) ==
  IF list = <<>> THEN None
  ELSE IF ~startsWith(list[1], <<"--">>) THEN Some(list[1])
  ELSE findPositional(Tail(list))

fileArg == findPositional(flags)

\* flags.filter((flag) => flag.startsWith("--"))
cleanFlags == SelectSeq(flags, LAMBDA f : startsWith(f, <<"--">>))

\* the options record both test scripts build from cleanFlags
TestOptions ==
  [coverage |-> includes(cleanFlags, Flag("coverage")) \/ includes(cleanFlags, Flag("cov")),
   verbose |-> includes(cleanFlags, Flag("verbose")) \/ includes(cleanFlags, Flag("v")),
   watch |-> includes(cleanFlags, Flag("watch")) \/ includes(cleanFlags, Flag("w"))]

(***************************************************************************)
(* Objects: a JavaScript object is a function from its own keys to         *)
(* optional values (a key may be present and hold undefined).              *)
(***************************************************************************)
\* o[k], undefined when o has no key k
Get(o, k) == IF k \in DOMAIN o THEN o[k] ELSE None

\* { ...a, ...b }: every own key of b replaces the key of a, also when the
\* value it holds is undefined
spread(a, b) ==
  [k \in DOMAIN a \cup DOMAIN b |-> IF k \in DOMAIN b THEN b[k] ELSE a[k]]

\* Object.fromEntries(Object.entries(o).filter(([_, value]) => value !== undefined))
dropUndefined(o) == [k \in {j \in DOMAIN o : o[j] # None} |-> o[k]]

\* String.prototype.split("="): the segments between the "=" pieces
RECURSIVE split(_)
split(text) ==
  IF \A i \in DOMAIN text : text[i] # "="
    THEN <<text>>
    ELSE LET i == CHOOSE j \in DOMAIN text :
                    text[j] = "=" /\ \A k \in 1..(j - 1) : text[k] # "="
         IN <<SubSeq(text, 1, i - 1)>> \o split(SubSeq(text, i + 1, Len(text)))

\* flags.find((f) => f.startsWith("--name="))
RECURSIVE findPrefixed(_, _)
findPrefixed(list, name) ==
  IF list = <<>> THEN None
  ELSE IF startsWith(list[1], <<"--", name, "=">>) THEN Some(list[1])
  ELSE findPrefixed(Tail(list), name)

\* flags.find((f) => f.startsWith("--name="))?.split("=")[1]
flagValue(list, name) ==
  LET found == findPrefixed(list, name) IN
  IF found = None THEN None ELSE Some(split(found[1])[2])

\* x || undefined
orUndefined(opt) == IF Truthy(opt) THEN opt ELSE None

\* x || fallback
orElse(opt, fallback) == IF Truthy(opt) THEN opt ELSE Some(fallback)

(***************************************************************************)
(* Steps.  A step is one call of a function of the scripts; the running    *)
(* operation is the list of the calls it still has to make.                *)
(***************************************************************************)
Running(step) == pc = "running" /\ todo # <<>> /\ Head(todo) = step

\* execSync(command): the child exits with status 0 (ok) or not
Exec(cmd, ok) == [command |-> cmd, ok |-> ok]

\* What a call did: the lines it wrote, the external processes it invoked,
\* the configurations it handed to the bundler, whether it returned (ok) or
\* threw err, and the file system and manifest it left.
Outcome(logs, execs, ok, err) ==
  [logs |-> logs, execs |-> execs, bundles |-> <<>>, ok |-> ok, err |-> err,
   fs |-> fs, pkg |-> pkg]

\* scripts/build/utils.ts buildBundle wraps its steps in try/catch: it logs
\* and re-throws what they throw.  No other caller catches.
CallerCatch(ok) ==
  IF ~ok /\ script = "scripts/build/index.ts"
    THEN <<LogError(<<"Failed to build bundle">>)>>
    ELSE <<>>

\* the end of a call whose caller goes on to its next call after an error
Finish_keep_going(step, o) ==
  /\ console' = console \o o.logs \o CallerCatch(o.ok)
  /\ execd' = execd \o [i \in DOMAIN o.execs |->
                          [by |-> step, command |-> o.execs[i].command,
                           ok |-> o.execs[i].ok]]
  /\ built' = built \o o.bundles
  /\ trace' = Append(trace, [step |-> step, ok |-> o.ok,
                             error |-> IF o.ok THEN NoError ELSE o.err])
  /\ todo' = Tail(todo)
  /\ error' = IF o.ok THEN error ELSE o.err
  /\ fs' = o.fs
  /\ pkg' = o.pkg
  /\ UNCHANGED <<script, argv, pc, exitCode, libVars>>

\* A thrown error is caught by nobody up to the top level (the callers that
\* catch re-throw it), so it ends the operation.
Finish(step, o) ==
  /\ console' = console \o o.logs \o CallerCatch(o.ok)
  /\ execd' = execd \o [i \in DOMAIN o.execs |->
                          [by |-> step, command |-> o.execs[i].command,
                           ok |-> o.execs[i].ok]]
  /\ built' = built \o o.bundles
  /\ trace' = Append(trace, [step |-> step, ok |-> o.ok,
                             error |-> IF o.ok THEN NoError ELSE o.err])
  /\ todo' = IF o.ok THEN Tail(todo) ELSE <<>>
  /\ error' = IF o.ok THEN error ELSE o.err
  /\ fs' = o.fs
  /\ pkg' = o.pkg
  /\ UNCHANGED <<script, argv, pc, exitCode, libVars>>

(***************************************************************************)
(* scripts/test/utils.ts                                                   *)
(***************************************************************************)
runAllTests_args(options) ==
  <<Word("test")>> \o (IF options.coverage # FALSE THEN <<Flag("coverage")>> ELSE <<>>)

runAllTests ==
  /\ Running("runAllTests")
  /\ LET cmd == BunCommand(runAllTests_args(TestOptions)) IN
     \E ok \in BOOLEAN :
       Finish("runAllTests",
         Outcome(<<Log(<<"Running all tests with coverage...">>),
                   Log(<<"Command: ">> \o cmd)>>
                   \o (IF ok THEN <<Log(<<"All tests passed successfully!">>)>>
                             ELSE <<LogError(<<"Tests failed">>)>>),
                 <<Exec(cmd, ok)>>, ok,
                 TestExecutionError(<<"Test execution failed">>, cmd)))

\* the arguments with --watch passed only when the watch option is set
runSingleFileTests_args_watch_on_request(filename, options) ==
  <<Word("test"), filename>>
    \o (IF options.watch THEN <<Flag("watch")>> ELSE <<>>)
    \o (IF options.coverage # FALSE THEN <<Flag("coverage")>> ELSE <<>>)
    \o (IF options.verbose THEN <<Flag("verbose")>> ELSE <<>>)

runSingleFileTests_args(filename, options) ==
  <<Word("test"), filename, Flag("watch")>>
    \o (IF options.coverage # FALSE THEN <<Flag("coverage")>> ELSE <<>>)
    \o (IF options.verbose THEN <<Flag("verbose")>> ELSE <<>>)

runSingleFileTests ==
  /\ Running("runSingleFileTests")
  /\ LET filename == fileArg[1]
         cmd == BunCommand(runSingleFileTests_args(filename, TestOptions)) IN
     \E ok \in BOOLEAN :
       Finish("runSingleFileTests",
         Outcome(<<Log(<<"Running tests for file: ">> \o filename),
                   Log(<<"Command: ">> \o cmd),
                   Log(<<"Press Ctrl+C to stop watching">>)>>
                   \o (IF ok THEN <<>>
                             ELSE <<LogError(<<"Tests failed for file: ">> \o filename)>>),
                 <<Exec(cmd, ok)>>, ok,
                 TestExecutionError(<<"Test execution failed for ">> \o filename, cmd)))

(***************************************************************************)
(* test.ts                                                                 *)
(***************************************************************************)
runTestsWithCoverage ==
  /\ Running("runTestsWithCoverage")
  /\ LET cmd == BunCommand(<<Word("test"), Flag("coverage")>>) IN
     \E ok \in BOOLEAN :
       Finish("runTestsWithCoverage",
         Outcome(<<Log(<<"Running all tests with coverage...">>),
                   Log(<<"Command: ">> \o cmd)>>
                   \o (IF ok THEN <<Log(<<"All tests passed successfully!">>)>>
                             ELSE <<LogError(<<"Tests failed">>)>>),
                 <<Exec(cmd, ok)>>, ok, ChildProcessError(cmd)))

runFileTests_args(filename, options) ==
  <<Word("test"), filename, Flag("watch")>>
    \o (IF options.coverage THEN <<Flag("coverage")>> ELSE <<>>)
    \o (IF options.verbose THEN <<Flag("verbose")>> ELSE <<>>)

\* called with { ...options, coverage: options.coverage ?? true }: coverage
\* is a boolean there, never undefined, so ?? keeps it
runFileTests ==
  /\ Running("runFileTests")
  /\ LET filename == fileArg[1]
         cmd == BunCommand(runFileTests_args(filename, TestOptions)) IN
     \E ok \in BOOLEAN :
       Finish("runFileTests",
         Outcome(<<Log(<<"Running tests for file: ">> \o filename),
                   Log(<<"Command: ">> \o cmd),
                   Log(<<"Press Ctrl+C to stop watching">>)>>
                   \o (IF ok THEN <<>>
                             ELSE <<LogError(<<"Tests failed for file: ">> \o filename)>>),
                 <<Exec(cmd, ok)>>, ok, ChildProcessError(cmd)))

(***************************************************************************)
(* The build output and the manifest.                                      *)
(***************************************************************************)
DistPaths == {"dist", "dist/index.js", "dist/index.d.ts"}

\* what a directory dist can hold: nothing of it, or the directory with any
\* of the two artifacts
DistContents == {{}} \cup {{"dist"} \cup d : d \in SUBSET {"dist/index.js", "dist/index.d.ts"}}

Tarball == "package.tgz"      \* `${pkg.name}-${pkg.version}.tgz`

\* Bun.file("package.json").json() throws when the file cannot be read
ManifestError == Error(<<"cannot read package.json">>)

(***************************************************************************)
(* Build steps: scripts/build/utils.ts and build.ts                        *)
(***************************************************************************)
\* the command line options of scripts/build/index.ts: only the keys that
\* were given
BuildOptions ==
  dropUndefined(
    [k \in {"minify", "sourcemap", "watch", "pack", "types", "target", "format"} |->
       IF k \in {"target", "format"}
         THEN orUndefined(flagValue(flags, k))
         ELSE IF includes(flags, Flag(k)) THEN Some(TRUE) ELSE None])

LOCAL_BUILD_OPTIONS ==
  [minify |-> Some(FALSE), sourcemap |-> Some(TRUE), target |-> Some(Word("bun")),
   format |-> Some(Word("esm")), pack |-> Some(TRUE), types |-> Some(TRUE)]

DEVELOPMENT_BUILD_OPTIONS ==
  [minify |-> Some(FALSE), sourcemap |-> Some(TRUE), target |-> Some(Word("bun")),
   format |-> Some(Word("esm")), types |-> Some(TRUE)]

PRODUCTION_BUILD_OPTIONS ==
  [minify |-> Some(TRUE), sourcemap |-> Some(FALSE), target |-> Some(Word("bun")),
   format |-> Some(Word("esm")), types |-> Some(FALSE)]

OPTIONS(mode) ==
  IF mode = "local" THEN LOCAL_BUILD_OPTIONS
  ELSE IF mode = "development" THEN DEVELOPMENT_BUILD_OPTIONS
  ELSE PRODUCTION_BUILD_OPTIONS

\* the mode the switch of scripts/build/index.ts hands to buildBundle
BuildMode ==
  IF command = Some(Word("dev")) THEN "development"
  ELSE IF command = Some(Word("prod")) THEN "production"
  ELSE "local"

\* const options = { ...OPTIONS[mode], ...newOptions }
MergedBuildOptions == spread(OPTIONS(BuildMode), BuildOptions)

\* the command line options of build.ts: every key always holds a value
LegacyBuildOptions ==
  [clean |-> Some(~includes(flags, Flag("no-clean"))),
   minify |-> Some(includes(flags, Flag("minify"))),
   sourcemap |-> Some(includes(flags, Flag("sourcemap"))),
   watch |-> Some(includes(flags, Flag("watch"))),
   pack |-> Some(includes(flags, Flag("pack"))),
   target |-> orElse(flagValue(flags, "target"), Word("bun")),
   format |-> orElse(flagValue(flags, "format"), Word("esm"))]

BUILD_DEFAULT_OPTIONS ==
  [clean |-> Some(TRUE), minify |-> Some(TRUE), sourcemap |-> Some(FALSE),
   watch |-> Some(FALSE), pack |-> Some(FALSE), target |-> Some(Word("bun")),
   format |-> Some(Word("esm"))]

PRODUCTION_ARGUMENT ==
  [clean |-> Some(TRUE), minify |-> Some(TRUE), sourcemap |-> Some(FALSE),
   target |-> Some(Word("bun")), format |-> Some(Word("esm"))]

DEVELOPMENT_ARGUMENT ==
  [clean |-> Some(TRUE), minify |-> Some(FALSE), sourcemap |-> Some(TRUE),
   target |-> Some(Word("bun")), format |-> Some(Word("esm"))]

\* the options build.ts hands to its buildBundle, by command
LegacyBundleOptions ==
  spread(BUILD_DEFAULT_OPTIONS,
         IF command = Some(Word("prod")) THEN PRODUCTION_ARGUMENT
         ELSE IF command = Some(Word("dev")) THEN DEVELOPMENT_ARGUMENT
         ELSE LegacyBuildOptions)

\* the BuildConfig handed to Bun.build
buildConfig(options) ==
  [target |-> Get(options, "target"),
   format |-> Get(options, "format"),
   minify |-> Get(options, "minify"),
   sourcemap |-> IF Get(options, "sourcemap") = Some(TRUE) THEN "linked" ELSE "none"]

\* cleanDist: removes the directory dist and all it holds when it exists
cleanDist ==
  /\ Running("cleanDist")
  /\ Finish("cleanDist",
       [Outcome(IF "dist" \in fs THEN <<Log(<<"Cleaned dist directory">>)>> ELSE <<>>,
                <<>>, TRUE, NoError)
        EXCEPT !.fs = fs \ DistPaths])

TscCommand == <<"npx tsc -p tsconfig.build.json">>

\* buildTypes: runs the TypeScript compiler, which writes the declarations
\* into dist when it succeeds
buildTypes ==
  /\ Running("buildTypes")
  /\ \E ok \in BOOLEAN :
       Finish("buildTypes",
         [Outcome(<<Log(<<"Building TypeScript definitions...">>)>>
                    \o (IF ok THEN <<Log(<<"TypeScript definitions built successfully">>)>>
                              ELSE <<LogError(<<"Failed to build TypeScript definitions">>)>>),
                  <<Exec(TscCommand, ok)>>, ok, ChildProcessError(TscCommand))
          EXCEPT !.fs = IF ok THEN fs \cup {"dist", "dist/index.d.ts"} ELSE fs])

\* await Bun.build(buildConfig) and the check of result.success: the bundler
\* writes dist/index.js when it succeeds.  In build.ts this is the whole of
\* buildBundle, which logs and re-throws its own failure.
bundle ==
  /\ Running("Bun.build")
  /\ LET options == IF script = "build.ts" THEN LegacyBundleOptions
                                           ELSE MergedBuildOptions IN
     \E ok \in BOOLEAN :
       Finish("Bun.build",
         [Outcome((IF script = "build.ts" THEN <<Log(<<"Building bundle...">>)>> ELSE <<>>)
                    \o (IF ok THEN <<>>
                        ELSE <<LogError(<<"Build failed with errors:">>)>>
                             \o (IF script = "build.ts"
                                   THEN <<LogError(<<"Failed to build bundle">>)>>
                                   ELSE <<>>))
                    \o (IF ok /\ script = "build.ts"
                          THEN <<Log(<<"Bundle built successfully">>)>> ELSE <<>>),
                  <<>>, ok, Error(<<"Build failed">>))
          EXCEPT !.bundles = <<buildConfig(options)>>,
                 !.fs = IF ok THEN fs \cup {"dist", "dist/index.js"} ELSE fs])

PackCommand == <<"bun pm pack">>

\* createPackageTarball: packs, then reads the manifest to name the tarball
createPackageTarball ==
  /\ Running("createPackageTarball")
  /\ \E ok \in BOOLEAN :
       LET readable == "package.json" \in fs
           done == ok /\ readable IN
       Finish("createPackageTarball",
         [Outcome(<<Log(<<"Creating package tarball...">>)>>
                    \o (IF ok THEN <<Log(<<"Package tarball created successfully">>)>> ELSE <<>>)
                    \o (IF done THEN <<Log(<<Tarball>>)>>
                                ELSE <<LogError(<<"Failed to create package tarball">>)>>),
                  <<Exec(PackCommand, ok)>>, done,
                  IF ok THEN ManifestError ELSE ChildProcessError(PackCommand))
          EXCEPT !.fs = IF ok THEN fs \cup {Tarball} ELSE fs])

\* the end of buildBundle in scripts/build/utils.ts: the report of the outputs
reportBundle ==
  /\ Running("reportBundle")
  /\ Finish("reportBundle",
       Outcome(<<Log(<<"Bundle built successfully">>)>>, <<>>, TRUE, NoError))

\* the line build.ts writes when buildAll, developmentBuild or
\* productionBuild has built the bundle and the types
reportBuild ==
  /\ Running("reportBuild")
  /\ Finish("reportBuild",
       Outcome(<<Log(<<"build completed">>)>>, <<>>, TRUE, NoError))

WatchCommand ==
  BunCommand(<<Word("build"), Word("./index.ts"), Flag("outdir"), Word("./dist"),
               Flag("watch"), Flag("sourcemap"), Flag("target"), Word("bun"),
               Flag("format"), Word("esm"),
               <<"--", "footer", "=", "\"// built with love in GDL (dev mode)\"">>>>)

\* build.ts developmentBuild(true): the bundler's own watch mode
watchBuild ==
  /\ Running("watchBuild")
  /\ \E ok \in BOOLEAN :
       Finish("watchBuild",
         Outcome(<<Log(<<"Starting development watch mode...">>),
                   Log(<<"Command: ">> \o WatchCommand),
                   Log(<<"Press Ctrl+C to stop watching">>)>>
                   \o (IF ok THEN <<>>
                             ELSE <<LogError(<<"Development watch mode failed">>)>>),
                 <<Exec(WatchCommand, ok)>>, ok, ChildProcessError(WatchCommand)))

(***************************************************************************)
(* publish.ts                                                              *)
(***************************************************************************)
DEFAULT_OPTIONS ==
  [dryRun |-> Some(FALSE), tag |-> Some(Word("latest")), access |-> Some(Word("public"))]

\* the options with the long form of the dry-run flag only
PublishOptions_dry_run_only ==
  [dryRun |-> Some(includes(flags, Flag("dry-run"))),
   tag |-> flagValue(flags, "tag"),
   access |-> IF includes(flags, Flag("public")) THEN Some(Word("public"))
              ELSE IF includes(flags, Flag("restricted")) THEN Some(Word("restricted"))
              ELSE None,
   registry |-> flagValue(flags, "registry")]

\* the command line options of publish.ts: the four keys are always there,
\* tag, access and registry hold undefined when their flag is absent
PublishOptions ==
  [dryRun |-> Some(includes(flags, Flag("dry-run")) \/ includes(flags, Flag("dry"))),
   tag |-> flagValue(flags, "tag"),
   access |-> IF includes(flags, Flag("public")) THEN Some(Word("public"))
              ELSE IF includes(flags, Flag("restricted")) THEN Some(Word("restricted"))
              ELSE None,
   registry |-> flagValue(flags, "registry")]

requiredFiles_without_readme == <<"dist/index.js", "dist/index.d.ts", "package.json">>

requiredFiles == <<"dist/index.js", "dist/index.d.ts", "package.json", "README.md">>

\* the first entry of a list of paths that does not exist
RECURSIVE firstMissing(_, _)
firstMissing(files, existing) ==
  IF files = <<>> THEN None
  ELSE IF files[1] \notin existing THEN Some(files[1])
  ELSE firstMissing(Tail(files), existing)

\* the validation without the check of the version field
validatePackage_result_no_version_check(existing, manifest) ==
  IF "dist" \notin existing
    THEN [err |-> Error(<<"Build required before publishing">>),
          logs |-> <<LogError(<<"dist directory not found. Please run build first.">>)>>]
  ELSE IF firstMissing(requiredFiles, existing) # None
    THEN LET file == firstMissing(requiredFiles, existing)[1] IN
         [err |-> Error(<<"Missing required file: ", file>>),
          logs |-> <<LogError(<<"Required file missing: ", file>>)>>]
  ELSE IF ~Truthy(manifest.name)
    THEN [err |-> Error(<<"package.json missing 'name' field">>),
          logs |-> <<LogError(<<"Invalid package.json">>)>>]
  ELSE IF ~manifest.entry
    THEN [err |-> Error(<<"package.json missing entry point (main/module/exports)">>),
          logs |-> <<LogError(<<"Invalid package.json">>)>>]
  ELSE [err |-> NoError, logs |-> <<Log(<<"Package validation passed">>)>>]

\* what validatePackage throws (NoError when it returns) and what it writes
\* with console.error before it throws
validatePackage_result(existing, manifest) ==
  IF "dist" \notin existing
    THEN [err |-> Error(<<"Build required before publishing">>),
          logs |-> <<LogError(<<"dist directory not found. Please run build first.">>)>>]
  ELSE IF firstMissing(requiredFiles, existing) # None
    THEN LET file == firstMissing(requiredFiles, existing)[1] IN
         [err |-> Error(<<"Missing required file: ", file>>),
          logs |-> <<LogError(<<"Required file missing: ", file>>)>>]
  ELSE IF ~Truthy(manifest.name)
    THEN [err |-> Error(<<"package.json missing 'name' field">>),
          logs |-> <<LogError(<<"Invalid package.json">>)>>]
  ELSE IF ~Truthy(manifest.version)
    THEN [err |-> Error(<<"package.json missing 'version' field">>),
          logs |-> <<LogError(<<"Invalid package.json">>)>>]
  ELSE IF ~manifest.entry
    THEN [err |-> Error(<<"package.json missing entry point (main/module/exports)">>),
          logs |-> <<LogError(<<"Invalid package.json">>)>>]
  ELSE [err |-> NoError, logs |-> <<Log(<<"Package validation passed">>)>>]

validatePackage ==
  /\ Running("validatePackage")
  /\ LET r == validatePackage_result(fs, pkg) IN
     Finish("validatePackage",
       Outcome(<<Log(<<"Validating package...">>)>> \o r.logs, <<>>,
               r.err = NoError, r.err))

BuildCommand == <<"bun run build.ts prod">>

\* buildForProduction: the build runs as a child process; what it leaves in
\* dist is the child's business, whether it exits with 0 or not
buildForProduction ==
  /\ Running("buildForProduction")
  /\ \E ok \in BOOLEAN, dist \in DistContents :
       Finish("buildForProduction",
         [Outcome(<<Log(<<"Building for production...">>)>>
                    \o (IF ok THEN <<Log(<<"Production build completed">>)>>
                              ELSE <<LogError(<<"Production build failed">>)>>),
                  <<Exec(BuildCommand, ok)>>, ok, ChildProcessError(BuildCommand))
          EXCEPT !.fs = (fs \ DistPaths) \cup dist])

\* npm version <type>: the next version
bump(version, type) ==
  IF type = Word("major") THEN <<version[1] + 1, 0, 0>>
  ELSE IF type = Word("minor") THEN <<version[1], version[2] + 1, 0>>
  ELSE <<version[1], version[2], version[3] + 1>>

VersionCommand(type) == <<"npm version ">> \o type \o <<" --no-git-tag-version">>

\* updateVersion(type): reads the manifest, lets npm write the next version
\* into it, reads it again
updateVersion ==
  /\ Running("updateVersion")
  /\ LET type == command[1]
         cmd == VersionCommand(type)
         readable == "package.json" \in fs IN
     \E ok \in BOOLEAN :
       /\ ok => Truthy(pkg.version)
       /\ Finish("updateVersion",
            [Outcome(<<Log(<<"Updating version (">> \o type \o <<")...">>)>>
                       \o (IF readable /\ ok THEN <<Log(<<"Version updated">>)>>
                                             ELSE <<LogError(<<"Failed to update version">>)>>),
                     IF readable THEN <<Exec(cmd, ok)>> ELSE <<>>,
                     readable /\ ok,
                     IF readable THEN ChildProcessError(cmd) ELSE ManifestError)
             EXCEPT !.pkg = IF readable /\ ok
                              THEN [pkg EXCEPT !.version = Some(bump(pkg.version[1], type))]
                              ELSE pkg])

publishToNpm_args(mergedOptions) ==
  <<Word("publish")>>
    \o (IF mergedOptions.dryRun = Some(TRUE) THEN <<Flag("dry-run")>> ELSE <<>>)
    \o (IF Truthy(mergedOptions.tag) /\ mergedOptions.tag # Some(Word("latest"))
          THEN <<Flag("tag"), mergedOptions.tag[1]>> ELSE <<>>)
    \o (IF Truthy(mergedOptions.access)
          THEN <<Flag("access"), mergedOptions.access[1]>> ELSE <<>>)
    \o (IF Truthy(Get(mergedOptions, "registry"))
          THEN <<Flag("registry"), mergedOptions.registry[1]>> ELSE <<>>)

\* the publish step with a catch block that writes the shipped manifest back
publishToNpm_rollback ==
  /\ Running("publishToNpm")
  /\ LET mergedOptions == spread(DEFAULT_OPTIONS, PublishOptions)
         dryRun == mergedOptions.dryRun = Some(TRUE)
         cmd == BunCommand(publishToNpm_args(mergedOptions)) IN
     \E ok \in BOOLEAN :
       Finish("publishToNpm",
         [Outcome(<<Log(<<"Publishing to npm...">>), Log(<<"Command: ">> \o cmd)>>
                    \o (IF ~ok THEN <<LogError(<<"Failed to publish to npm">>)>> ELSE <<>>),
                  <<Exec(cmd, ok)>>, ok, ChildProcessError(cmd))
          EXCEPT !.pkg = IF ok THEN pkg ELSE [pkg EXCEPT !.version = Some(<<0, 0, 1>>)]])

\* publishToNpm(options), and the line publishWithVersionBump writes when it
\* returned
publishToNpm ==
  /\ Running("publishToNpm")
  /\ LET mergedOptions == spread(DEFAULT_OPTIONS, PublishOptions)
         dryRun == mergedOptions.dryRun = Some(TRUE)
         cmd == BunCommand(publishToNpm_args(mergedOptions)) IN
     \E ok \in BOOLEAN :
       Finish("publishToNpm",
         Outcome(<<Log(<<"Publishing to npm...">>), Log(<<"Command: ">> \o cmd)>>
                   \o (IF dryRun THEN <<Log(<<"DRY RUN - Not actually publishing">>)>> ELSE <<>>)
                   \o (IF ~ok THEN <<LogError(<<"Failed to publish to npm">>)>>
                       ELSE IF dryRun THEN <<Log(<<"Dry run completed successfully!">>)>>
                       ELSE <<Log(<<"Published to npm successfully!">>)>>)
                   \o (IF ok THEN <<Log(<<"Successfully released">>)>> ELSE <<>>),
                 <<Exec(cmd, ok)>>, ok, ChildProcessError(cmd)))

ViewCommand(manifest) ==
  <<"npm view ">>
    \o (IF manifest.name = None THEN <<"undefined">> ELSE manifest.name[1])
    \o <<" --json">>

\* showPackageInfo: prints the manifest, then asks the registry; it catches
\* the failure of that lookup itself and goes on
showPackageInfo ==
  /\ Running("showPackageInfo")
  /\ IF "package.json" \notin fs
       THEN Finish("showPackageInfo",
              Outcome(<<Log(<<"Package Information">>),
                        LogError(<<"Failed to read package information">>)>>,
                      <<>>, FALSE, ManifestError))
       ELSE \E ok \in BOOLEAN :
              Finish("showPackageInfo",
                Outcome(<<Log(<<"Package Information">>),
                          IF ok THEN Log(<<"NPM Status:">>)
                                ELSE Log(<<"NPM Status: Not published yet">>)>>,
                        <<Exec(ViewCommand(pkg), ok)>>, TRUE, NoError))

(***************************************************************************)
(* The dispatchers: the switch (command) at the end of each script.        *)
(***************************************************************************)
HelpText(s) == Log(<<"help: ", s>>)

\* The outcome of the switch: what it prints itself, the calls it makes, and
\* whether it ends the process at once with process.exit(1).
Switch(logs, calls, exitNow) == [logs |-> logs, calls |-> calls, exitNow |-> exitNow]

\* the switch of scripts/test/index.ts with a default case that only prints
TestSwitch_help_only ==
  IF command = Some(Word("coverage")) THEN Switch(<<>>, <<"runAllTests">>, FALSE)
  ELSE IF command = Some(Word("file")) THEN
    IF ~Truthy(fileArg)
      THEN Switch(<<LogError(<<"Please specify a test file to run">>),
                    Log(<<"Usage: bun run test:file <filename>">>)>>, <<>>, TRUE)
      ELSE Switch(<<>>, <<"runSingleFileTests">>, FALSE)
  ELSE Switch(<<HelpText("scripts/test/index.ts")>>, <<>>, FALSE)

\* scripts/test/index.ts
TestSwitch ==
  IF command = Some(Word("coverage")) THEN Switch(<<>>, <<"runAllTests">>, FALSE)
  ELSE IF command = Some(Word("file")) THEN
    IF ~Truthy(fileArg)
      THEN Switch(<<LogError(<<"Please specify a test file to run">>),
                    Log(<<"Usage: bun run test:file <filename>">>)>>, <<>>, TRUE)
      ELSE Switch(<<>>, <<"runSingleFileTests">>, FALSE)
  ELSE IF command = Some(Word("help"))
    THEN Switch(<<HelpText("scripts/test/index.ts")>>, <<>>, FALSE)
  ELSE Switch(<<HelpText("scripts/test/index.ts")>>,
              IF ~Truthy(command) THEN <<"runAllTests">> ELSE <<>>, FALSE)

\* test.ts
LegacyTestSwitch ==
  IF command = Some(Word("coverage")) THEN Switch(<<>>, <<"runTestsWithCoverage">>, FALSE)
  ELSE IF command = Some(Word("file")) THEN
    IF ~Truthy(fileArg)
      THEN Switch(<<LogError(<<"Please specify a test file to run">>),
                    Log(<<"Usage: bun test:file <filename>">>)>>, <<>>, TRUE)
      ELSE Switch(<<>>, <<"runFileTests">>, FALSE)
  ELSE Switch(<<HelpText("test.ts")>>,
              IF ~Truthy(command) THEN <<"runTestsWithCoverage">> ELSE <<>>, FALSE)

\* the switch with a buildBundle that packs the tarball before it bundles
BuildSwitch_pack_before_bundle ==
  LET options == MergedBuildOptions
      buildBundle ==
        Switch(<<Log(<<"Building bundle...">>)>>,
               <<"cleanDist">>
                 \o (IF Get(options, "types") = Some(TRUE) THEN <<"buildTypes">> ELSE <<>>)
                 \o (IF Get(options, "pack") = Some(TRUE)
                       THEN <<"createPackageTarball">> ELSE <<>>)
                 \o <<"Bun.build">>
                 \o <<"reportBundle">>,
               FALSE) IN
  IF command \in {Some(Word("local")), Some(Word("dev")), Some(Word("prod"))}
    THEN buildBundle
  ELSE IF command = Some(Word("help"))
    THEN Switch(<<HelpText("scripts/build/index.ts")>>, <<>>, FALSE)
  ELSE IF ~Truthy(command)
    THEN [buildBundle EXCEPT !.logs = <<HelpText("scripts/build/index.ts")>> \o @]
  ELSE Switch(<<HelpText("scripts/build/index.ts")>>, <<>>, FALSE)

\* scripts/build/index.ts: buildBundle(mode, options) is the list of the
\* steps its options select
BuildSwitch ==
  LET options == MergedBuildOptions
      buildBundle ==
        Switch(<<Log(<<"Building bundle...">>)>>,
               <<"cleanDist">>
                 \o (IF Get(options, "types") = Some(TRUE) THEN <<"buildTypes">> ELSE <<>>)
                 \o <<"Bun.build">>
                 \o (IF Get(options, "pack") = Some(TRUE)
                       THEN <<"createPackageTarball">> ELSE <<>>)
                 \o <<"reportBundle">>,
               FALSE) IN
  IF command \in {Some(Word("local")), Some(Word("dev")), Some(Word("prod"))}
    THEN buildBundle
  ELSE IF command = Some(Word("help"))
    THEN Switch(<<HelpText("scripts/build/index.ts")>>, <<>>, FALSE)
  ELSE IF ~Truthy(command)
    THEN [buildBundle EXCEPT !.logs = <<HelpText("scripts/build/index.ts")>> \o @]
  ELSE Switch(<<HelpText("scripts/build/index.ts")>>, <<>>, FALSE)

\* build.ts
LegacyBuildSwitch ==
  LET options == LegacyBuildOptions
      pack == IF options.pack = Some(TRUE) THEN <<"createPackageTarball">> ELSE <<>>
      \* buildAll(options)
      buildAll ==
        Switch(<<Log(<<"Starting full build process...">>)>>,
               (IF spread(BUILD_DEFAULT_OPTIONS, options).clean = Some(TRUE)
                  THEN <<"cleanDist">> ELSE <<>>)
                 \o <<"Bun.build", "buildTypes", "reportBuild">> \o pack,
               FALSE) IN
  IF command = Some(Word("bundle")) THEN Switch(<<>>, <<"Bun.build">>, FALSE)
  ELSE IF command = Some(Word("types")) THEN Switch(<<>>, <<"buildTypes">>, FALSE)
  ELSE IF command = Some(Word("clean")) THEN Switch(<<>>, <<"cleanDist">>, FALSE)
  ELSE IF command = Some(Word("watch")) THEN Switch(<<>>, <<"watchBuild">>, FALSE)
  ELSE IF command = Some(Word("dev"))
    THEN Switch(<<Log(<<"Building for development...">>)>>,
                <<"Bun.build", "buildTypes", "reportBuild">> \o pack, FALSE)
  ELSE IF command = Some(Word("prod"))
    THEN Switch(<<Log(<<"Building for production...">>)>>,
                <<"Bun.build", "buildTypes", "reportBuild">> \o pack, FALSE)
  ELSE IF command = Some(Word("all")) THEN buildAll
  ELSE IF ~Truthy(command)
    THEN [buildAll EXCEPT !.logs = <<HelpText("build.ts")>> \o @]
  ELSE Switch(<<HelpText("build.ts")>>, <<>>, FALSE)

\* the release with the version bumped before the package is validated
publishWithVersionBump_bump_first ==
  <<"buildForProduction", "updateVersion", "validatePackage", "publishToNpm">>

\* publishWithVersionBump(versionType, options): the four steps of a release
publishWithVersionBump ==
  <<"buildForProduction", "validatePackage", "updateVersion", "publishToNpm">>

\* the switch of publish.ts with a default case that shows the package
\* information whatever the command word
PublishSwitch_always_info ==
  IF command \in {Some(Word("patch")), Some(Word("minor")), Some(Word("major"))}
    THEN Switch(<<Log(<<"Full ">> \o command[1] \o <<" release workflow...">>)>>,
                <<"buildForProduction", "validatePackage", "updateVersion",
                  "publishToNpm">>, FALSE)
  ELSE IF command = Some(Word("info")) THEN Switch(<<>>, <<"showPackageInfo">>, FALSE)
  ELSE Switch(<<HelpText("publish.ts")>>, <<"showPackageInfo">>, FALSE)

\* publish.ts
PublishSwitch ==
  IF command \in {Some(Word("patch")), Some(Word("minor")), Some(Word("major"))}
    THEN Switch(<<Log(<<"Full ">> \o command[1] \o <<" release workflow...">>)>>,
                publishWithVersionBump, FALSE)
  ELSE IF command = Some(Word("info")) THEN Switch(<<>>, <<"showPackageInfo">>, FALSE)
  ELSE Switch(<<HelpText("publish.ts")>>,
              IF ~Truthy(command) THEN <<"showPackageInfo">> ELSE <<>>, FALSE)

SwitchOf(s) ==
  IF s = "scripts/test/index.ts" THEN TestSwitch
  ELSE IF s = "test.ts" THEN LegacyTestSwitch
  ELSE IF s = "scripts/build/index.ts" THEN BuildSwitch
  ELSE IF s = "build.ts" THEN LegacyBuildSwitch
  ELSE PublishSwitch

\* The script starts: it parses its arguments and runs the switch up to the
\* first call it awaits.
Dispatch ==
  /\ script \in Scripts
  /\ pc = "start"
  /\ LET sw == SwitchOf(script) IN
     /\ console' = console \o sw.logs
     /\ todo' = sw.calls
     /\ pc' = IF sw.exitNow THEN "exited" ELSE "running"
     /\ exitCode' = IF sw.exitNow THEN 1 ELSE exitCode
  /\ UNCHANGED <<script, argv, execd, error, fs, pkg, built, trace, libVars>>

\* The script has nothing left to run: the process ends, with status 0 when
\* the top-level await returned and status 1 when it threw.
Exit ==
  /\ script \in Scripts
  /\ pc = "running"
  /\ todo = <<>>
  /\ pc' = "exited"
  /\ exitCode' = IF error = NoError THEN 0 ELSE 1
  /\ UNCHANGED <<script, argv, todo, console, execd, error, fs, pkg, built, trace, libVars>>

(***************************************************************************)
(* The library client: it calls sum on a list, then on a reordering of the *)
(* list or on the list with one more value.                                *)
(***************************************************************************)
swap(list, i, j) ==
  [k \in DOMAIN list |-> IF k = i THEN list[j] ELSE IF k = j THEN list[i] ELSE list[k]]

CallFirst ==
  /\ script \in SumModules
  /\ rel = "idle"
  /\ rx' = CallSum(script, xs)
  /\ rel' = "summed"
  /\ UNCHANGED <<script, cliVars, xs, ys, ry>>

CallReordered ==
  /\ script \in SumModules
  /\ rel \in {"summed", "perm"}
  /\ \E i, j \in DOMAIN xs :
       /\ i < j
       /\ ys' = swap(IF rel = "perm" THEN ys ELSE xs, i, j)
       /\ ry' = CallSum(script, ys')
  /\ rel' = "perm"
  /\ UNCHANGED <<script, cliVars, xs, rx>>

CallAppended ==
  /\ script \in SumModules
  /\ rel = "summed"
  /\ \E y \in Values :
       /\ ys' = Append(xs, y)
       /\ ry' = CallSum(script, ys')
  /\ rel' = "append"
  /\ UNCHANGED <<script, cliVars, xs, rx>>

(***************************************************************************)
(* The specification.                                                      *)
(***************************************************************************)
\* package.json as the repository ships it
Manifest == [name |-> Some(Word("js-pkg-go")), version |-> Some(<<0, 0, 1>>),
             entry |-> TRUE]

\* the manifests a publish run may find: the shipped one, and the shipped one
\* without its name (or with an empty one), its version or its entry point,
\* or without several of them
Manifests ==
  {Manifest, [Manifest EXCEPT !.name = None], [Manifest EXCEPT !.version = None],
   [Manifest EXCEPT !.entry = FALSE],
   [Manifest EXCEPT !.name = Some(EmptyString)],
   [Manifest EXCEPT !.name = None, !.version = None],
   [Manifest EXCEPT !.version = None, !.entry = FALSE]}

\* the working directory a script may be started in
Directories(s) ==
  IF s = "publish.ts"
    THEN {f \cup d : f \in SUBSET {"package.json", "README.md"}, d \in {{}, DistPaths}}
  ELSE IF s \in BuildScripts
    THEN {{"package.json", "README.md"} \cup d : d \in {{}, DistPaths}}
  ELSE {{"package.json", "README.md"}}

Init ==
  /\ script \in Programs
  /\ argv \in ArgLists(script)
  /\ pc = "start"
  /\ todo = <<>>
  /\ console = <<>>
  /\ execd = <<>>
  /\ error = NoError
  /\ exitCode = -1
  /\ fs \in Directories(script)
  /\ pkg \in IF script = "publish.ts" /\ "package.json" \in fs THEN Manifests ELSE {Manifest}
  /\ built = <<>>
  /\ trace = <<>>
  /\ xs \in IF script \in SumModules THEN SeqsUpTo(Values, MaxLen) ELSE {<<>>}
  /\ rx = 0
  /\ ys = <<>>
  /\ ry = 0
  /\ rel = "idle"

Next ==
  \/ CallFirst
  \/ CallReordered
  \/ CallAppended
  \/ Dispatch
  \/ runAllTests
  \/ runSingleFileTests
  \/ runTestsWithCoverage
  \/ runFileTests
  \/ cleanDist
  \/ buildTypes
  \/ bundle
  \/ createPackageTarball
  \/ reportBundle
  \/ reportBuild
  \/ watchBuild
  \/ buildForProduction
  \/ validatePackage
  \/ updateVersion
  \/ publishToNpm
  \/ showPackageInfo
  \/ Exit

Spec == Init /\ [][Next]_vars

(***************************************************************************)
(* Properties of the summation core.                                       *)
(***************************************************************************)
\* the arithmetic sum of a list, accumulated from its end
RECURSIVE MathSum(_)
MathSum(list) == IF list = <<>> THEN 0 ELSE list[1] + MathSum(Tail(list))

\* C1: every call sum(...list) the client made returned the arithmetic sum of
\* the list, as the reference accumulation MathSum computes it.
C1_SumIsArithmeticSum ==
  script \in SumModules =>
    /\ rel # "idle" => rx = MathSum(xs)
    /\ rel \in {"perm", "append"} => ry = MathSum(ys)

\* a call on a list of MaxLen values, some of them negative, has returned
C1_Witness ==
  /\ script \in SumModules
  /\ rel = "summed"
  /\ Len(xs) = MaxLen
  /\ \E i \in DOMAIN xs : xs[i] < 0
  /\ \E i \in DOMAIN xs : xs[i] > 0

\* C2: sum called with no arguments returned 0.
C2_EmptySumIsZero ==
  (script \in SumModules /\ rel # "idle" /\ xs = <<>>) => rx = 0

C2_Witness == script \in SumModules /\ rel = "summed" /\ xs = <<>>

\* ys is xs in another order
IsPermutation(a, b) ==
  /\ Len(a) = Len(b)
  /\ \A v \in Range(a) \cup Range(b) :
       Cardinality({i \in DOMAIN a : a[i] = v}) = Cardinality({i \in DOMAIN b : b[i] = v})

\* C3: sum of a reordering of a list equals sum of the list.
C3_SumIgnoresOrder ==
  (script \in SumModules /\ rel = "perm") => (IsPermutation(xs, ys) /\ ry = rx)

\* a reordering that moved every element of a list of three distinct values
C3_Witness ==
  /\ script \in SumModules
  /\ rel = "perm"
  /\ Len(xs) >= 3
  /\ Cardinality(Range(xs)) = Len(xs)
  /\ \A i \in DOMAIN xs : ys[i] # xs[i]

\* C4: sum of a list with y appended equals sum of the list plus y.
C4_SumIsIncremental ==
  (script \in SumModules /\ rel = "append") =>
    /\ ys = xs \o <<ys[Len(ys)]>>
    /\ ry = rx + ys[Len(ys)]

\* a non-zero value appended to a list whose sum is not zero
C4_Witness ==
  /\ script \in SumModules
  /\ rel = "append"
  /\ Len(xs) >= 2
  /\ rx # 0
  /\ ys[Len(ys)] # 0

(***************************************************************************)
(* Properties of the dispatchers.                                          *)
(***************************************************************************)
\* the calls made so far, by name
Steps == [i \in DOMAIN trace |-> trace[i].step]

\* the process has ended
Exited == pc = "exited"

\* a command word was given and it is none of the script's case labels
UnrecognizedCommand ==
  /\ script \in Scripts
  /\ command # None
  /\ command[1] # EmptyString
  /\ command[1] \notin Recognized(script)

\* C5: a run with an unrecognized command word prints the help text and that
\* only, makes no call, invokes no external process and no bundler, and ends
\* with exit status 0.
C5_UnrecognizedCommandShowsHelp ==
  UnrecognizedCommand =>
    /\ trace = <<>> /\ execd = <<>> /\ built = <<>> /\ todo = <<>>
    /\ error = NoError
    /\ fs \in Directories(script)
    /\ pc # "start" => console = <<HelpText(script)>>
    /\ exitCode \in {-1, 0}
    /\ Exited => exitCode = 0

C5_Witness ==
  /\ UnrecognizedCommand
  /\ script = "publish.ts"
  /\ flags # <<>>
  /\ Exited
  /\ exitCode = 0

\* the file command of a test script, followed by no token but "--" flags
FileCommandWithoutName ==
  /\ script \in TestScripts
  /\ command = Some(Word("file"))
  /\ \A i \in DOMAIN flags : startsWith(flags[i], <<"--">>)

\* C6: the file command without a filename prints a usage error, ends the
\* process with a non-zero status and invokes no external process.
C6_FileCommandNeedsName ==
  FileCommandWithoutName =>
    /\ execd = <<>> /\ trace = <<>>
    /\ pc # "start" =>
         /\ Exited
         /\ exitCode # 0 /\ exitCode # -1
         /\ Len(console) = 2
         /\ console[1] = LogError(<<"Please specify a test file to run">>)
         /\ console[2].stream = "log"

C6_Witness ==
  /\ FileCommandWithoutName
  /\ script = "scripts/test/index.ts"
  /\ Len(flags) = 2
  /\ Exited
  /\ exitCode = 1

\* the calls the default operation of each script may make
DefaultOperation(s) ==
  IF s = "scripts/test/index.ts" THEN {"runAllTests"}
  ELSE IF s = "test.ts" THEN {"runTestsWithCoverage"}
  ELSE IF s = "publish.ts" THEN {"showPackageInfo"}
  ELSE IF s = "scripts/build/index.ts"
    THEN {"cleanDist", "buildTypes", "Bun.build", "createPackageTarball", "reportBundle"}
  ELSE {"cleanDist", "Bun.build", "buildTypes", "reportBuild", "createPackageTarball"}

\* C7: a run with no command word makes the calls of the script's default
\* operation and no other: the test scripts run all tests, publish.ts shows
\* the package information, the build scripts run the bundler.
C7_NoCommandRunsDefault ==
  (script \in Scripts /\ command = None) =>
    /\ \A i \in DOMAIN trace : trace[i].step \in DefaultOperation(script)
    /\ \A i \in DOMAIN todo : todo[i] \in DefaultOperation(script)
    /\ pc = "running" => (trace # <<>> \/ todo # <<>>)
    /\ Exited =>
         /\ trace # <<>>
         /\ script \notin BuildScripts =>
              (Len(trace) = 1 /\ (error = NoError => Len(execd) = 1))
         /\ (script \in BuildScripts /\ exitCode = 0) =>
              (Len(built) = 1 /\ \E i \in DOMAIN trace : trace[i].step = "Bun.build")

C7_Witness ==
  /\ script = "scripts/test/index.ts"
  /\ command = None
  /\ Exited
  /\ exitCode = 0
  /\ Steps = <<"runAllTests">>

(***************************************************************************)
(* Properties of the release workflow.                                     *)
(***************************************************************************)
\* a run of publish.ts with one of the release commands
Release ==
  /\ script = "publish.ts"
  /\ command \in {Some(Word("patch")), Some(Word("minor")), Some(Word("major"))}

\* the call made last
LastCall == trace[Len(trace)]

\* C8: a release makes its calls in the order build, validate, version bump,
\* publish; a call is made only when every call before it returned, so after
\* a call that threw no other call is made, and the error that ends the run
\* is the one that call threw.
C8_ReleaseStepsInOrder ==
  Release =>
    /\ Len(trace) <= 4
    /\ Steps = SubSeq(<<"buildForProduction", "validatePackage", "updateVersion",
                        "publishToNpm">>, 1, Len(trace))
    /\ \A i \in DOMAIN trace : i < Len(trace) => trace[i].ok
    /\ \A i \in DOMAIN execd : i < Len(execd) => execd[i].ok
    /\ (trace # <<>> /\ ~LastCall.ok) =>
         /\ todo = <<>>
         /\ LastCall.error # NoError
         /\ error = LastCall.error
         /\ Exited => exitCode = 1
    /\ error # NoError => (trace # <<>> /\ ~LastCall.ok)
    /\ (Exited /\ exitCode = 0) => (Len(trace) = 4 /\ LastCall.ok)

\* a release that built, validated and bumped the version, and whose publish
\* step failed
C8_Witness ==
  /\ Release
  /\ Exited
  /\ Len(trace) = 4
  /\ ~LastCall.ok
  /\ Len(execd) = 3
  /\ exitCode = 1

(***************************************************************************)
(* Properties of the external processes.                                   *)
(***************************************************************************)
\* some line was written with console.error
FailureLogged == \E j \in DOMAIN console : console[j].stream = "error"

\* C9 as stated: whenever an external process exited with a non-zero status,
\* it is the last one invoked, the operation makes no further call, a failure
\* message is logged, the error raised is a typed execution error that
\* carries the command line executed, and the process ends with a non-zero
\* status.
C9_EveryFailureRaisesTypedError ==
  \A i \in DOMAIN execd :
    ~execd[i].ok =>
      /\ i = Len(execd)
      /\ todo = <<>>
      /\ FailureLogged
      /\ error.type \notin {"none", "Error"}
      /\ error.command = Some(execd[i].command)
      /\ Exited => exitCode # 0

\* C9 as amended: the failure of the registry lookup of showPackageInfo is
\* caught, the run goes on and ends with status 0.  The failure of any other
\* external process ends the operation at once with a failure message and a
\* non-zero exit status; the error raised is a TestExecutionError carrying
\* the executed command line in scripts/test, and elsewhere the error thrown
\* by execSync, re-thrown as it is.
C9_FailureEndsTheOperation ==
  \A i \in DOMAIN execd :
    ~execd[i].ok =>
      IF execd[i].by = "showPackageInfo"
        THEN /\ error = NoError
             /\ ~FailureLogged
             /\ console[Len(console)] = Log(<<"NPM Status: Not published yet">>)
             /\ Exited => exitCode = 0
        ELSE /\ i = Len(execd)
             /\ todo = <<>>
             /\ FailureLogged
             /\ LastCall.step = execd[i].by
             /\ IF script = "scripts/test/index.ts"
                  THEN /\ error.type = "TestExecutionError"
                       /\ error.command = Some(execd[i].command)
                  ELSE /\ error.type = "Error"
                       /\ error = ChildProcessError(execd[i].command)
             /\ Exited => exitCode = 1

\* a single-file test run whose test runner failed has ended
C9_Witness ==
  /\ script = "scripts/test/index.ts"
  /\ Exited
  /\ Len(execd) = 1
  /\ ~execd[1].ok
  /\ execd[1].by = "runSingleFileTests"
  /\ error.command = Some(execd[1].command)
  /\ exitCode = 1

(***************************************************************************)
(* Properties of the publish validation.                                   *)
(***************************************************************************)
RequiredPaths == {"dist/index.js", "dist/index.d.ts", "package.json", "README.md"}

\* validatePackage has just returned or thrown; it leaves the directory as
\* it found it
Validated == Release /\ trace # <<>> /\ LastCall.step = "validatePackage"

\* the text of a message names the path
Names(message, path) == \E i \in DOMAIN message : message[i] = path

\* C10 as stated: validation succeeds only if every required path exists,
\* and when one is missing it fails with a message that names a missing path.
C10_MissingPathIsNamed ==
  Validated =>
    /\ LastCall.ok => RequiredPaths \subseteq fs
    /\ ~(RequiredPaths \subseteq fs) =>
         /\ ~LastCall.ok
         /\ \E f \in RequiredPaths \ fs : Names(LastCall.error.message, f)

\* the required path that comes first in the order of the check and is missing
FirstMissingIs(f) ==
  /\ f \notin fs
  /\ f = "dist/index.d.ts" => "dist/index.js" \in fs
  /\ f = "package.json" => {"dist/index.js", "dist/index.d.ts"} \subseteq fs
  /\ f = "README.md" => {"dist/index.js", "dist/index.d.ts", "package.json"} \subseteq fs

\* C10 as amended: validation succeeds only if every required path exists;
\* when one is missing it fails; with the directory dist present the message
\* names the first missing path in the order dist/index.js, dist/index.d.ts,
\* package.json, README.md; with no directory dist the message is "Build
\* required before publishing" and names no path.
C10_FirstMissingPathIsNamed ==
  Validated =>
    /\ LastCall.ok => RequiredPaths \subseteq fs
    /\ ~(RequiredPaths \subseteq fs) => ~LastCall.ok
    /\ "dist" \notin fs =>
         LastCall.error = Error(<<"Build required before publishing">>)
    /\ \A f \in RequiredPaths :
         ("dist" \in fs /\ FirstMissingIs(f)) =>
           /\ LastCall.error.type = "Error"
           /\ Names(LastCall.error.message, f)
           /\ \A g \in RequiredPaths \ {f} : ~Names(LastCall.error.message, g)

\* validation failed on a build that left the bundle but no declarations, in
\* a directory that has no README.md either
C10_Witness ==
  /\ Validated
  /\ "dist/index.js" \in fs
  /\ "dist/index.d.ts" \notin fs
  /\ "README.md" \notin fs
  /\ ~LastCall.ok
  /\ Names(LastCall.error.message, "dist/index.d.ts")


\* the manifest lacks a name, a version or every entry-point field
LacksField(manifest) ==
  ~Truthy(manifest.name) \/ ~Truthy(manifest.version) \/ ~manifest.entry

\* the item the checks of the manifest find missing first
MissingItemMessage(manifest) ==
  IF ~Truthy(manifest.name) THEN <<"package.json missing 'name' field">>
  ELSE IF ~Truthy(manifest.version) THEN <<"package.json missing 'version' field">>
  ELSE <<"package.json missing entry point (main/module/exports)">>

\* C11: in a release whose manifest lacks a name, a version or every entry
\* point, validation fails, the version is never bumped and nothing is
\* published: no call follows validatePackage and the run ends with status 1.
\* When every required file exists, so that the manifest is what validation
\* fails on, the error names the missing item: the name, else the version,
\* else the entry point.
C11_ManifestFieldIsRequired ==
  (Release /\ LacksField(pkg)) =>
    /\ \A i \in DOMAIN trace : trace[i].step \in {"buildForProduction", "validatePackage"}
    /\ \A i \in DOMAIN execd : execd[i].by = "buildForProduction"
    /\ pkg \in Manifests
    /\ Validated =>
         /\ ~LastCall.ok
         /\ todo = <<>>
         /\ error = LastCall.error
         /\ error.type = "Error"
         /\ ("dist" \in fs /\ RequiredPaths \subseteq fs) =>
              /\ error.message = MissingItemMessage(pkg)
              /\ console[Len(console)] = LogError(<<"Invalid package.json">>)
         /\ Exited => exitCode = 1

\* a release ended by the validation of a complete build whose manifest has
\* a name and an entry point but no version
C11_Witness ==
  /\ Release
  /\ Validated
  /\ Exited
  /\ "dist" \in fs /\ RequiredPaths \subseteq fs
  /\ Truthy(pkg.name) /\ pkg.entry /\ ~Truthy(pkg.version)
  /\ error = Error(<<"package.json missing 'version' field">>)
  /\ exitCode = 1


(***************************************************************************)
(* Properties of the failure policy.                                       *)
(***************************************************************************)
\* no command line was handed to execSync twice
NothingRetried ==
  \A i, j \in DOMAIN execd : i # j => execd[i].command # execd[j].command

\* C12 as stated: no external command is run twice, and an external command
\* that failed is the last one run: the call that ran it threw, no call
\* follows it, and the process ends with a non-zero status.
C12_EveryFailedCommandIsFatal ==
  /\ NothingRetried
  /\ \A i \in DOMAIN execd :
       ~execd[i].ok =>
         /\ i = Len(execd)
         /\ todo = <<>>
         /\ LastCall.step = execd[i].by
         /\ ~LastCall.ok
         /\ error # NoError
         /\ Exited => exitCode \notin {-1, 0}

\* C12 as amended: no external command is run twice, and an external command
\* that failed is the last one run.  Unless it is the registry lookup of
\* showPackageInfo, the call that ran it threw, no call follows it and the
\* process ends with status 1.  The failure of the registry lookup is caught:
\* showPackageInfo returns, no error is raised and the process ends with
\* status 0.
C12_FailedCommandIsFatalButLookup ==
  /\ NothingRetried
  /\ \A i \in DOMAIN execd :
       ~execd[i].ok =>
         /\ i = Len(execd)
         /\ todo = <<>>
         /\ LastCall.step = execd[i].by
         /\ IF execd[i].by = "showPackageInfo"
              THEN /\ LastCall.ok
                   /\ error = NoError
                   /\ Exited => exitCode = 0
              ELSE /\ ~LastCall.ok
                   /\ error # NoError
                   /\ Exited => exitCode = 1

\* a local build whose type build failed has ended: the bundler was not run
\* and no tarball was packed
C12_Witness ==
  /\ script = "scripts/build/index.ts"
  /\ Exited
  /\ Len(execd) = 1
  /\ execd[1].by = "buildTypes"
  /\ ~execd[1].ok
  /\ built = <<>>
  /\ exitCode = 1


(***************************************************************************)
(* Properties of the publish step.                                         *)
(***************************************************************************)
\* the text holds the pieces of part, one after the other
Contains(text, part) ==
  \E i \in 1..(Len(text) - Len(part) + 1) : SubSeq(text, i, i + Len(part) - 1) = part

\* the command line carries the argument arg, set off by blanks
HasArgument(cmd, arg) ==
  \/ Contains(cmd, <<" ">> \o arg \o <<" ">>)
  \/ /\ Len(cmd) > Len(arg)
     /\ SubSeq(cmd, Len(cmd) - Len(arg), Len(cmd)) = <<" ">> \o arg

\* the command line runs the publish subcommand
IsPublishCommand(cmd) == startsWith(cmd, <<"bun", " ", "publish">>)

\* a release started with --dry-run or --dry among its flags
DryRunRelease ==
  /\ Release
  /\ \E i \in DOMAIN flags : flags[i] \in {Flag("dry-run"), Flag("dry")}

\* C13: in a release started with --dry-run or --dry, every publish command
\* that is executed carries the argument --dry-run, whatever the release
\* command (patch, minor, major) and the other flags; it is executed once at
\* most, by publishToNpm, and announced as a dry run.
C13_DryRunNeverPublishes ==
  DryRunRelease =>
    /\ \A i \in DOMAIN execd :
         (execd[i].by = "publishToNpm" \/ IsPublishCommand(execd[i].command)) =>
           /\ execd[i].by = "publishToNpm"
           /\ IsPublishCommand(execd[i].command)
           /\ HasArgument(execd[i].command, Flag("dry-run"))
           /\ i = Len(execd)
           /\ \E j \in DOMAIN console :
                console[j] = Log(<<"DRY RUN - Not actually publishing">>)
    /\ \A j \in DOMAIN console : console[j] # Log(<<"Published to npm successfully!">>)

\* a major release started with --dry after another flag has run its publish
\* command and ended with status 0
C13_Witness ==
  /\ Release
  /\ command = Some(Word("major"))
  /\ Len(flags) = 2
  /\ flags[2] = Flag("dry")
  /\ ~includes(flags, Flag("dry-run"))
  /\ Exited
  /\ exitCode = 0
  /\ Len(execd) = 3
  /\ execd[3].by = "publishToNpm"
  /\ HasArgument(execd[3].command, Flag("dry-run"))


(***************************************************************************)
(* Properties of the test scripts.                                         *)
(***************************************************************************)
\* a run of a test script with the coverage command or with no command word
CoverageRun ==
  /\ script \in TestScripts
  /\ (command = None \/ command = Some(Word("coverage")))

\* C14: the coverage command and the run with no command word execute the
\* test runner with the argument --coverage, whether or not a --coverage
\* flag was given.
C14_CoverageRunHasCoverage ==
  CoverageRun =>
    \A i \in DOMAIN execd :
      /\ startsWith(execd[i].command, <<"bun", " ", "test">>)
      /\ HasArgument(execd[i].command, Flag("coverage"))


(***************************************************************************)
(* Properties of the build scripts.                                        *)
(***************************************************************************)
\* the calls buildBundle of the build utilities makes for the options, when
\* none of them fails
BundleCalls(options) ==
  <<"cleanDist">>
    \o (IF Get(options, "types") = Some(TRUE) THEN <<"buildTypes">> ELSE <<>>)
    \o <<"Bun.build">>
    \o (IF Get(options, "pack") = Some(TRUE) THEN <<"createPackageTarball">> ELSE <<>>)
    \o <<"reportBundle">>

\* the list a is the beginning of the list b
IsPrefix(a, b) == Len(a) <= Len(b) /\ \A i \in DOMAIN a : a[i] = b[i]

\* the options of the command prod for the flags of this run
ProductionOptions == spread(PRODUCTION_BUILD_OPTIONS, BuildOptions)

\* C15: scripts/build/index.ts started with no command word runs the build
\* that the command prod runs: the same calls, and a bundler configuration
\* that is minified and has no sourcemaps.
C15_DefaultBuildIsProd ==
  (script = "scripts/build/index.ts" /\ command = None) =>
    /\ pc # "start" => IsPrefix(Steps \o todo, BundleCalls(ProductionOptions))
    /\ \A i \in DOMAIN built :
         /\ built[i] = buildConfig(ProductionOptions)
         /\ built[i].minify = Some(TRUE)
         /\ built[i].sourcemap = "none"


\* a build script has run the command prod with no flag and ended with
\* status 0
ProdBuildSucceeded ==
  /\ script \in BuildScripts
  /\ argv = <<Word("prod")>>
  /\ Exited
  /\ exitCode = 0

\* C16: after a successful prod build with no flags the bundle and the type
\* declarations both exist, the declarations were built by this run, and the
\* two files the publish validation asks for in dist are there.
C16_ProdBuildsBundleAndTypes ==
  ProdBuildSucceeded =>
    /\ \E i \in DOMAIN trace : trace[i].step = "Bun.build" /\ trace[i].ok
    /\ \E i \in DOMAIN trace : trace[i].step = "buildTypes" /\ trace[i].ok
    /\ {"dist", "dist/index.js", "dist/index.d.ts"} \subseteq fs


(***************************************************************************)
(* Properties of the valued flags.                                         *)
(***************************************************************************)
\* the whole text that follows the first "=" of the first token --name=...
\* among the flags (undefined when there is no such token)
WholeValue(name) ==
  LET found == findPrefixed(flags, name) IN
  IF found = None THEN None ELSE Some(SubSeq(found[1], 4, Len(found[1])))

\* C17: the value of a flag --name=value is the whole text after the first
\* "=" of the token.  A publish command that is executed carries that text
\* after --tag (unless it is empty or latest) and after --registry (unless it
\* is empty); a bundler configuration carries it as target and as format
\* (the default bun or esm when it is empty or the flag is absent).
C17_ValueIsTextAfterFirstSeparator ==
  /\ script = "publish.ts" =>
       \A i \in DOMAIN execd :
         execd[i].by = "publishToNpm" =>
           /\ (Truthy(WholeValue("tag")) /\ WholeValue("tag") # Some(Word("latest"))) =>
                HasArgument(execd[i].command,
                            Flag("tag") \o <<" ">> \o WholeValue("tag")[1])
           /\ Truthy(WholeValue("registry")) =>
                HasArgument(execd[i].command,
                            Flag("registry") \o <<" ">> \o WholeValue("registry")[1])
  /\ (script = "scripts/build/index.ts" \/ (script = "build.ts" /\ command \notin
        {Some(Word("dev")), Some(Word("prod"))})) =>
       \A i \in DOMAIN built :
         /\ built[i].target = orElse(WholeValue("target"), Word("bun"))
         /\ built[i].format = orElse(WholeValue("format"), Word("esm"))


(***************************************************************************)
(* Properties of the side effects of a release.                            *)
(***************************************************************************)
\* the version that follows the shipped version 0.0.1
NextVersion(type) ==
  IF type = Word("major") THEN <<1, 0, 0>>
  ELSE IF type = Word("minor") THEN <<0, 1, 0>>
  ELSE <<0, 0, 2>>

\* the version bump of this release has been made
VersionBumped ==
  /\ Release
  /\ \E i \in DOMAIN trace : trace[i].step = "updateVersion" /\ trace[i].ok

\* C18: once the version bump of a release has been made, the manifest holds
\* the bumped version in every later state: while publishToNpm runs, after
\* it failed, after a dry run, and when the process has ended.  The build
\* output the validation found stays in place as well.
C18_NoRollback ==
  VersionBumped =>
    /\ pkg.version = Some(NextVersion(command[1]))
    /\ pkg.name = Manifest.name
    /\ pkg.entry
    /\ {"dist", "dist/index.js", "dist/index.d.ts", "package.json", "README.md"} \subseteq fs

\* a minor release has ended with status 1 after its publish step failed,
\* and the manifest holds version 0.1.0
C18_Witness ==
  /\ VersionBumped
  /\ command = Some(Word("minor"))
  /\ Exited
  /\ exitCode = 1
  /\ LastCall.step = "publishToNpm"
  /\ ~LastCall.ok
  /\ pkg.version = Some(<<0, 1, 0>>)


(***************************************************************************)
(* Properties of the single-file test run.                                 *)
(***************************************************************************)
\* the file command of a test script with a filename among its tokens
FileRun ==
  /\ script \in TestScripts
  /\ command = Some(Word("file"))
  /\ \E i \in DOMAIN flags : flags[i] # EmptyString /\ ~startsWith(flags[i], <<"--">>)

\* the token is among the flags
Given(token) == \E i \in DOMAIN flags : flags[i] = token

\* the first token that is not a "--" flag
FirstName ==
  flags[CHOOSE i \in DOMAIN flags :
          /\ ~startsWith(flags[i], <<"--">>)
          /\ \A j \in 1..(i - 1) : startsWith(flags[j], <<"--">>)]

\* C19: the file command executes one command, "bun test <filename> --watch"
\* followed by --coverage when --coverage or --cov was given and then by
\* --verbose when --verbose or --v was given; --watch is there whether or not
\* --watch was given.  The filename is the first token that is not a flag.
C19_SingleFileRunWatches ==
  FileRun =>
    /\ Len(execd) <= 1
    /\ trace # <<>> => Len(execd) = 1
    /\ \A i \in DOMAIN execd :
         execd[i].command =
           <<"bun", " ", "test", " ">> \o FirstName \o <<" ", "--", "watch">>
             \o (IF Given(Flag("coverage")) \/ Given(Flag("cov"))
                   THEN <<" ", "--", "coverage">> ELSE <<>>)
             \o (IF Given(Flag("verbose")) \/ Given(Flag("v"))
                   THEN <<" ", "--", "verbose">> ELSE <<>>)

\* a run of the file command with --verbose before the filename and --cov
\* after it, and no --watch, has executed its command
C19_Witness ==
  /\ FileRun
  /\ script = "scripts/test/index.ts"
  /\ flags = <<Flag("verbose"), OtherTestFile, Flag("cov")>>
  /\ Len(execd) = 1
  /\ HasArgument(execd[1].command, Flag("watch"))
  /\ Exited


(***************************************************************************)
(* Properties of buildBundle of the build utilities.                       *)
(***************************************************************************)
\* a run of scripts/build/index.ts that calls buildBundle
BundleRun ==
  /\ script = "scripts/build/index.ts"
  /\ (~Truthy(command) \/ command \in {Some(Word("local")), Some(Word("dev")),
                                       Some(Word("prod"))})

\* the types option is set: by the flag, or by the mode (local and development)
TypesWanted == Given(Flag("types")) \/ command # Some(Word("prod"))

\* the pack option is set: by the flag, or by the mode (local)
PackWanted == Given(Flag("pack")) \/ command \notin {Some(Word("dev")), Some(Word("prod"))}

\* the place of a call in the order of buildBundle
Rank(step) ==
  IF step = "cleanDist" THEN 1
  ELSE IF step = "buildTypes" THEN 2
  ELSE IF step = "Bun.build" THEN 3
  ELSE IF step = "createPackageTarball" THEN 4
  ELSE 5

\* the call was made, and it returned
Done(step) == \E i \in DOMAIN trace : trace[i].step = step /\ trace[i].ok

\* the call was made
Called(step) == \E i \in DOMAIN trace : trace[i].step = step

\* C20: buildBundle makes its calls in the order cleanDist, buildTypes,
\* Bun.build, createPackageTarball, each once at most and each only after
\* the calls before it returned.  cleanDist is the first call, so nothing
\* the run wrote is cleaned; buildTypes is called exactly when the types
\* option is set and createPackageTarball only when the pack option is set
\* and the bundler reported success.  After a failed type build or a failed
\* bundle no tarball exists and the pack command was not run.
C20_BundleStepsInOrder ==
  BundleRun =>
    /\ \A i, j \in DOMAIN trace : i < j => Rank(trace[i].step) < Rank(trace[j].step)
    /\ \A i \in DOMAIN trace : i < Len(trace) => trace[i].ok
    /\ trace # <<>> => trace[1].step = "cleanDist"
    /\ Called("buildTypes") => TypesWanted
    /\ (Called("Bun.build") /\ TypesWanted) => Done("buildTypes")
    /\ Called("createPackageTarball") =>
         (PackWanted /\ Done("Bun.build") /\ "dist/index.js" \in fs)
    /\ (Called("reportBundle") /\ PackWanted) => Done("createPackageTarball")
    /\ (\E i \in DOMAIN execd : execd[i].command = PackCommand) => Done("Bun.build")
    /\ Tarball \in fs => Done("Bun.build")
    /\ (\E i \in DOMAIN trace :
          trace[i].step \in {"buildTypes", "Bun.build"} /\ ~trace[i].ok) =>
         /\ Tarball \notin fs
         /\ ~Called("createPackageTarball")
         /\ todo = <<>>

\* a local build whose type build succeeded and whose bundle failed has
\* ended: the declarations are there, the tarball is not
C20_Witness ==
  /\ BundleRun
  /\ PackWanted
  /\ Exited
  /\ exitCode = 1
  /\ Steps = <<"cleanDist", "buildTypes", "Bun.build">>
  /\ ~LastCall.ok
  /\ "dist/index.d.ts" \in fs
  /\ Tarball \notin fs


(***************************************************************************)
(* Properties of the publish defaults.                                     *)
(***************************************************************************)
\* some argument of the command line is --name
HasOption(cmd, name) == Contains(cmd, <<" ">> \o Flag(name))

\* C21: a publish command executed by a release started with neither
\* --public nor --restricted carries the arguments --access public, and one
\* executed by a release started with no --tag= flag carries no --tag
\* argument.
C21_DefaultsApplyWithoutFlag ==
  Release =>
    \A i \in DOMAIN execd :
      execd[i].by = "publishToNpm" =>
        /\ (~Given(Flag("public")) /\ ~Given(Flag("restricted"))) =>
             HasArgument(execd[i].command, Flag("access") \o <<" ", "public">>)
        /\ findPrefixed(flags, "tag") = None => ~HasOption(execd[i].command, "tag")

=============================================================================
